---------------------------- MODULE Spec2Model ----------------------------
(***************************************************************************)
(* A model of src/main.py: a Flask application over a relational store     *)
(* (Business, Customer, Campaign), a signed cookie session per browser,    *)
(* and the handlers register, login, dashboard and logout.                  *)
(*                                                                         *)
(* Texts that the code inspects character by character (AI completions,    *)
(* prompts, messages, business names) are sequences of one-character       *)
(* strings.  Texts the code only compares or measures (emails, passwords)  *)
(* are strings.                                                            *)
(***************************************************************************)
EXTENDS Integers, Sequences, FiniteSets, TLC

VARIABLES
    businesses,     \* table businesses: sequence of rows in insertion order
    business_seq,   \* the id sequence of table businesses (last value drawn)
    customers,      \* table customers
    campaigns,      \* table campaigns
    session,        \* session[s]: the cookie session of browser s (user_id or NoUser)
    req,            \* req[s]: the request browser s has in flight, with the handler's locals
    resp,           \* the response the last step returned (NoResponse: it returned none)
    ai_text,        \* input of clean_ai_text (pure-function specification)
    clean_out       \* result of clean_ai_text (pure-function specification)

vars == <<businesses, business_seq, customers, campaigns, session, req, resp,
          ai_text, clean_out>>

store == <<businesses, business_seq, customers, campaigns>>

(***************************************************************************)
(* Python values                                                           *)
(***************************************************************************)
\* Python's None where a text is expected (a tuple, so that it compares with texts).
None == <<"<None>">>

\* No result computed yet.
Unset == <<"<unset>">>

\* The characters str.strip() removes.
Whitespace == {" ", "\t", "\n", "\r"}

\* str.replace(old, ""): the non-overlapping occurrences of old, found left to right, removed.
RECURSIVE Remove(_, _)
Remove(s, old) ==
    IF Len(s) < Len(old) THEN s
    ELSE IF SubSeq(s, 1, Len(old)) = old
         THEN Remove(SubSeq(s, Len(old) + 1, Len(s)), old)
         ELSE <<Head(s)>> \o Remove(Tail(s), old)

RECURSIVE LStrip(_)
LStrip(s) ==
    IF s # <<>> /\ Head(s) \in Whitespace THEN LStrip(Tail(s)) ELSE s

RECURSIVE RStrip(_)
RStrip(s) ==
    IF s # <<>> /\ s[Len(s)] \in Whitespace THEN RStrip(SubSeq(s, 1, Len(s) - 1)) ELSE s

\* str.strip()
Strip(s) == RStrip(LStrip(s))

\* sub in s
Contains(s, sub) ==
    \E i \in 1..(Len(s) - Len(sub) + 1) : SubSeq(s, i, i + Len(sub) - 1) = sub

\* s.startswith(prefix)
StartsWith(s, prefix) ==
    Len(s) >= Len(prefix) /\ SubSeq(s, 1, Len(prefix)) = prefix

Hashes == <<"#", "#", "#">>
Stars == <<"*", "*">>

\* def clean_ai_text(text): (text or "").replace("###", "").replace("**", "").strip()
clean_ai_text(text) ==
    Strip(Remove(Remove(IF text = None THEN <<>> ELSE text, Hashes), Stars))

(***************************************************************************)
(* clean_ai_text as a pure function over bounded inputs                    *)
(***************************************************************************)
MaxTextLen == 5

CleanAlphabet == {"#", "*", " ", "H"}

ExampleText == <<"*", "*", "H", "i", "*", "*", " ", "#", "#", "#">>

RECURSIVE TextsUpTo(_)
TextsUpTo(n) ==
    IF n = 0 THEN {<<>>}
    ELSE LET shorter == TextsUpTo(n - 1)
         IN  shorter \cup {Append(t, c) : t \in {u \in shorter : Len(u) = n - 1},
                                          c \in CleanAlphabet}

CleanInputs == TextsUpTo(MaxTextLen) \cup {ExampleText, None}

(***************************************************************************)
(* Literal texts of the source                                             *)
(***************************************************************************)
\* "Business name: "
BusinessNameLabel ==
    <<"B", "u", "s", "i", "n", "e", "s", "s", " ", "n", "a", "m", "e", ":", " ">>

\* " Create a short birthday promotion for "
BirthdayLead ==
    <<" ", "C", "r", "e", "a", "t", "e", " ", "a", " ", "s", "h", "o", "r", "t", " ", "b",
      "i", "r", "t", "h", "d", "a", "y", " ", "p", "r", "o", "m", "o", "t", "i", "o", "n",
      " ", "f", "o", "r", " ">>

\* " with 30% off. Keep under 80 words."
BirthdayTail ==
    <<" ", "w", "i", "t", "h", " ", "3", "0", "%", " ", "o", "f", "f", ".", " ", "K", "e",
      "e", "p", " ", "u", "n", "d", "e", "r", " ", "8", "0", " ", "w", "o", "r", "d", "s",
      ".">>

\* " Create a loyalty promotion for "
LoyaltyLead ==
    <<" ", "C", "r", "e", "a", "t", "e", " ", "a", " ", "l", "o", "y", "a", "l", "t", "y",
      " ", "p", "r", "o", "m", "o", "t", "i", "o", "n", " ", "f", "o", "r", " ">>

\* ". Keep under 80 words."
LoyaltyTail ==
    <<".", " ", "K", "e", "e", "p", " ", "u", "n", "d", "e", "r", " ", "8", "0", " ", "w",
      "o", "r", "d", "s", ".">>

\* " Create a weekend promotion for "
WeekendLead ==
    <<" ", "C", "r", "e", "a", "t", "e", " ", "a", " ", "w", "e", "e", "k", "e", "n", "d",
      " ", "p", "r", "o", "m", "o", "t", "i", "o", "n", " ", "f", "o", "r", " ">>

\* " with 20% off. Keep under 80 words."
WeekendTail ==
    <<" ", "w", "i", "t", "h", " ", "2", "0", "%", " ", "o", "f", "f", ".", " ", "K", "e",
      "e", "p", " ", "u", "n", "d", "e", "r", " ", "8", "0", " ", "w", "o", "r", "d", "s",
      ".">>

\* "AI Error: "
AIErrorPrefix ==
    <<"A", "I", " ", "E", "r", "r", "o", "r", ":", " ">>

\* "Email Error: "
EmailErrorPrefix ==
    <<"E", "m", "a", "i", "l", " ", "E", "r", "r", "o", "r", ":", " ">>

\* the check-mark character, then " Email Sent Successfully!"
EmailSentMessage ==
    <<"U+2705", " ", "E", "m", "a", "i", "l", " ", "S", "e", "n", "t", " ", "S", "u", "c",
      "c", "e", "s", "s", "f", "u", "l", "l", "y", "!">>

\* "Missing EMAIL_USER or EMAIL_PASS."
MissingEmailConfig ==
    <<"M", "i", "s", "s", "i", "n", "g", " ", "E", "M", "A", "I", "L", "_", "U", "S", "E",
      "R", " ", "o", "r", " ", "E", "M", "A", "I", "L", "_", "P", "A", "S", "S", ".">>

\* "30%"
ThirtyPercent == <<"3", "0", "%">>

\* "20%"
TwentyPercent == <<"2", "0", "%">>

\* "loyalty"
LoyaltyWord == <<"l", "o", "y", "a", "l", "t", "y">>

(***************************************************************************)
(* Inputs: the values the environment (browsers, the AI service, the mail  *)
(* relay, the clock, the salt generator) may supply                        *)
(***************************************************************************)
Cafe == <<"C", "a", "f", "e">>

Spa == <<"S", "p", "a">>

Ann == <<"A", "n", "n">>

Timeout == <<"t", "i", "m", "e", "o", "u", "t">>

SmtpRefused == <<"r", "e", "f", "u", "s", "e", "d">>

OkText == <<"O", "k">>

Sessions == {"s1", "s2"}

\* "user_id" not in session
NoUser == 0

Salts == {"saltA", "saltB"}

\* Values of datetime.utcnow() (wall clock: it may repeat and is not tied to the id order)
Times == {1, 2}

(***************************************************************************)
(* The store and the credential helpers                                    *)
(***************************************************************************)
\* The set of elements of a sequence.
Range(seq) == {seq[i] : i \in 1..Len(seq)}

\* key in request.form
Has(form, key) == key \in DOMAIN form

\* request.form.get(key, "")
GetOrEmpty(form, key) == IF Has(form, key) THEN form[key] ELSE <<>>

\* bcrypt.hashpw(password, salt): the hash carries its salt and a digest of salt and password.
hashpw(password, salt) == <<salt, password>>

\* Mutant of checkpw: every password matches.
checkpw_any(password, hashed) == TRUE

\* bcrypt.checkpw(password, hashed): hash the password with the hash's salt and compare.
checkpw(password, hashed) == hashpw(password, hashed[1]) = hashed

\* len(raw_password) < 6 rejects the registration.
MinPasswordLen == 6

\* Mutant of PasswordTooShort: the comparison is off by one.
PasswordTooShort_off_by_one(raw_password) == Len(raw_password) < MinPasswordLen - 1

PasswordTooShort(raw_password) == Len(raw_password) < MinPasswordLen

\* Python's None where a Business row is expected (a record, so that it compares with rows).
NoBusiness == [id |-> NoUser]

\* Business.query.filter_by(email=email).first(): the row, or None.
BusinessByEmail(email) ==
    LET found == {b \in Range(businesses) : b.email = email}
    IN  IF found = {} THEN NoBusiness ELSE CHOOSE b \in found : \A o \in found : b.id <= o.id

\* Business.query.get(id): the row, or None.
BusinessById(id) ==
    LET found == {b \in Range(businesses) : b.id = id}
    IN  IF found = {} THEN NoBusiness ELSE CHOOSE b \in found : TRUE

\* Mutant of EmailUniqueOk: the column has no unique constraint.
EmailUniqueOk_unconstrained(email) == TRUE

\* The unique constraint of column businesses.email lets an INSERT of this email through.
EmailUniqueOk(email) == \A b \in Range(businesses) : b.email # email

\* Mutant of current_business: without a user_id, the first Business row.
current_business_first(s) ==
    IF session[s] # NoUser THEN BusinessById(session[s])
    ELSE IF businesses = <<>> THEN NoBusiness ELSE businesses[1]

\* def current_business(): the session's Business row, or None.
current_business(s) ==
    IF session[s] = NoUser THEN NoBusiness ELSE BusinessById(session[s])

(***************************************************************************)
(* Requests and responses                                                  *)
(***************************************************************************)
Idle == [pc |-> "idle"]

\* What a handler has produced so far for the request rq of browser s, whose session
\* held uid when the request came in.  The fields after uid record what the request did:
\* the business it acted for, the rows it inserted, the prompts it sent to the AI
\* service, how many of those calls raised, the emails it sent.
NewResponse(rq, s, uid) ==
    [kind |-> "none", body |-> "", promotion_message |-> None, listing |-> <<>>,
     total_campaigns |-> 0, business_name |-> None,
     request |-> rq, session |-> s, uid |-> uid, b |-> NoUser,
     new_customers |-> {}, new_campaigns |-> {}, prompts |-> <<>>, ai_errors |-> 0,
     emails_sent |-> 0]

NoResponse ==
    NewResponse([handler |-> "none", method |-> "GET", form |-> <<>>], "none", NoUser)

\* return "<text>"
Text(r, body) == [r EXCEPT !.kind = "text", !.body = body]

\* return redirect(target)
Redirect(r, target) == [r EXCEPT !.kind = "redirect", !.body = target]

\* return render_template(template, ...)
Page(r, template) == [r EXCEPT !.kind = "page", !.body = template]

\* request.form[key] of a missing key: werkzeug answers 400 Bad Request.
BadRequest(r) == [r EXCEPT !.kind = "error", !.body = "400 Bad Request"]

\* An exception no handler catches: 500 Internal Server Error.
ServerError(r) == [r EXCEPT !.kind = "error", !.body = "500 Internal Server Error"]

\* The handler returns r to browser s.
Finish(s, r) ==
    /\ req' = [req EXCEPT ![s] = Idle]
    /\ resp' = r

\* The handler of browser s goes on with locals l (its place is l.pc).
Continue(s, l) ==
    /\ req' = [req EXCEPT ![s] = l]
    /\ resp' = NoResponse

(***************************************************************************)
(* /register                                                               *)
(***************************************************************************)
\* register(), lines 149-160: the form, the length check and the lookup of the email.
RegisterBegin(s, method, form) ==
    /\ req[s].pc = "idle"
    /\ LET rq == [handler |-> "register", method |-> method, form |-> form]
           r == NewResponse(rq, s, session[s])
       IN  IF method = "GET"
           THEN Finish(s, Page(r, "index.html"))
           ELSE IF ~(/\ Has(form, "business_name") /\ Has(form, "owner_name")
                     /\ Has(form, "email") /\ Has(form, "password"))
           THEN Finish(s, BadRequest(r))
           ELSE IF PasswordTooShort(form.password)
           THEN Finish(s, Text(r, "Password must be at least 6 characters."))
           ELSE IF BusinessByEmail(form.email) # NoBusiness
           THEN Finish(s, Text(r, "Email already registered."))
           ELSE Continue(s, [pc |-> "reg_commit", out |-> r])
    /\ UNCHANGED <<store, session, ai_text, clean_out>>

\* register(), lines 162-178: hash, INSERT and commit, then the session.
\* A commit the unique constraint refuses raises IntegrityError out of the handler;
\* the id drawn from the sequence is spent either way.
RegisterCommit(s, salt) ==
    /\ req[s].pc = "reg_commit"
    /\ LET r == req[s].out
           form == r.request.form
           id == business_seq + 1
           row == [id |-> id, business_name |-> form.business_name,
                   owner_name |-> form.owner_name, email |-> form.email,
                   password |-> hashpw(form.password, salt)]
       IN  /\ business_seq' = id
           /\ IF EmailUniqueOk(form.email)
              THEN /\ businesses' = Append(businesses, row)
                   /\ session' = [session EXCEPT ![s] = id]
                   /\ Finish(s, Redirect([r EXCEPT !.b = id], "/dashboard"))
              ELSE /\ UNCHANGED <<businesses, session>>
                   /\ Finish(s, ServerError(r))
    /\ UNCHANGED <<customers, campaigns, ai_text, clean_out>>

(***************************************************************************)
(* /login and /logout                                                      *)
(***************************************************************************)
\* login(), lines 183-202
Login(s, method, form) ==
    /\ req[s].pc = "idle"
    /\ LET rq == [handler |-> "login", method |-> method, form |-> form]
           r == NewResponse(rq, s, session[s])
           b == BusinessByEmail(form.email)
       IN  IF session[s] # NoUser
           THEN /\ Finish(s, Redirect(r, "/dashboard"))
                /\ UNCHANGED session
           ELSE IF method = "GET"
           THEN /\ Finish(s, Page(r, "login.html"))
                /\ UNCHANGED session
           ELSE IF ~(Has(form, "email") /\ Has(form, "password"))
           THEN /\ Finish(s, BadRequest(r))
                /\ UNCHANGED session
           ELSE IF b # NoBusiness /\ checkpw(form.password, b.password)
           THEN /\ session' = [session EXCEPT ![s] = b.id]
                /\ Finish(s, Redirect([r EXCEPT !.b = b.id], "/dashboard"))
           ELSE /\ Finish(s, Text(r, "Invalid Credentials"))
                /\ UNCHANGED session
    /\ UNCHANGED <<store, ai_text, clean_out>>

\* logout(), lines 300-302: session.pop("user_id", None)
Logout(s) ==
    /\ req[s].pc = "idle"
    /\ session' = [session EXCEPT ![s] = NoUser]
    /\ Finish(s, Redirect(NewResponse([handler |-> "logout", method |-> "GET",
                                       form |-> <<>>], s, session[s]), "/"))
    /\ UNCHANGED <<store, ai_text, clean_out>>

(***************************************************************************)
(* /dashboard                                                              *)
(***************************************************************************)
\* Mutant of BuildPrompt: the loyalty prompt is the default branch.
BuildPrompt_loyalty_default(business_name, first_name, campaign_type) ==
    LET business_context == BusinessNameLabel \o business_name \o <<".">>
    IN  IF campaign_type = "birthday"
        THEN business_context \o BirthdayLead \o first_name \o BirthdayTail
        ELSE IF campaign_type = "weekend"
        THEN business_context \o WeekendLead \o first_name \o WeekendTail
        ELSE business_context \o LoyaltyLead \o first_name \o LoyaltyTail

\* dashboard(), lines 233-240: the prompt for the AI completion call.
BuildPrompt(business_name, first_name, campaign_type) ==
    LET business_context == BusinessNameLabel \o business_name \o <<".">>
    IN  IF campaign_type = "birthday"
        THEN business_context \o BirthdayLead \o first_name \o BirthdayTail
        ELSE IF campaign_type = "loyalty"
        THEN business_context \o LoyaltyLead \o first_name \o LoyaltyTail
        ELSE business_context \o WeekendLead \o first_name \o WeekendTail

\* Mutant of CustomerRow: the row is not tied to the business.
CustomerRow_unowned(b, form) ==
    [id |-> Len(customers) + 1, business_id |-> NoUser,
     first_name |-> form.first_name,
     last_name |-> GetOrEmpty(form, "last_name"),
     email |-> form.customer_email,
     phone |-> GetOrEmpty(form, "phone"),
     dob |-> GetOrEmpty(form, "dob")]

\* dashboard(), lines 222-229: the Customer row of a submission of business b.
CustomerRow(b, form) ==
    [id |-> Len(customers) + 1, business_id |-> b.id,
     first_name |-> form.first_name,
     last_name |-> GetOrEmpty(form, "last_name"),
     email |-> form.customer_email,
     phone |-> GetOrEmpty(form, "phone"),
     dob |-> GetOrEmpty(form, "dob")]

\* dashboard(), lines 253-259: the Campaign row of a submission of business b.
CampaignRow(b, form, message, now) ==
    [id |-> Len(campaigns) + 1, business_id |-> b.id,
     customer_name |-> form.first_name,
     customer_email |-> form.customer_email,
     campaign_type |-> form.campaign_type,
     message |-> message, created_at |-> now]

\* Mutant of CompletionReturned: the Campaign row is added whatever the call did.
CompletionReturned_always(ai) == TRUE

\* dashboard(), lines 242-264: the rest of the try block runs when the call returned;
\* an error it raised goes to the except clause.
CompletionReturned(ai) == ai.ok

\* What send_email returns: True, the missing-configuration text, or str(e).
SendEmailResults ==
    {[sent |-> TRUE, text |-> <<>>],
     [sent |-> FALSE, text |-> MissingEmailConfig],
     [sent |-> FALSE, text |-> SmtpRefused]}

\* dashboard(), lines 206-240 and 267-280: the login gate, then by method and form:
\* the Customer row and the prompt, or the email, or nothing.
DashboardBegin(s, method, form) ==
    /\ req[s].pc = "idle"
    /\ LET rq == [handler |-> "dashboard", method |-> method, form |-> form]
           r0 == NewResponse(rq, s, session[s])
           b == current_business(s)
           r == [r0 EXCEPT !.b = b.id]
       IN  IF b = NoBusiness
           THEN /\ Finish(s, Redirect(r0, "/login"))
                /\ UNCHANGED customers
           ELSE IF method = "POST" /\ Has(form, "generate_campaign")
           THEN IF ~(/\ Has(form, "first_name") /\ Has(form, "customer_email")
                     /\ Has(form, "campaign_type"))
                THEN /\ Finish(s, BadRequest(r))
                     /\ UNCHANGED customers
                ELSE LET cust == CustomerRow(b, form)
                         prompt == BuildPrompt(b.business_name, form.first_name,
                                               form.campaign_type)
                     IN  /\ customers' = Append(customers, cust)
                         /\ Continue(s, [pc |-> "dash_ai", b |-> b, prompt |-> prompt,
                                         out |-> [r EXCEPT !.new_customers = {cust.id}]])
           ELSE IF method = "POST" /\ Has(form, "send_email")
           THEN IF ~(Has(form, "customer_email") /\ Has(form, "promotion_message"))
                THEN /\ Finish(s, BadRequest(r))
                     /\ UNCHANGED customers
                ELSE /\ \E mail \in SendEmailResults :
                            Continue(s, [pc |-> "dash_list", b |-> b,
                                out |-> [r EXCEPT
                                    !.emails_sent = IF mail.sent THEN 1 ELSE 0,
                                    !.promotion_message =
                                        IF mail.sent THEN EmailSentMessage
                                        ELSE EmailErrorPrefix \o mail.text]])
                     /\ UNCHANGED customers
           ELSE /\ Continue(s, [pc |-> "dash_list", b |-> b, out |-> r])
                /\ UNCHANGED customers
    /\ UNCHANGED <<businesses, business_seq, campaigns, session, ai_text, clean_out>>

\* What client.chat.completions.create does: it returns a completion whose content
\* is text, or it raises an error whose str() is text.
AIOutcomes ==
    {[ok |-> TRUE, text |-> t] : t \in {ExampleText, OkText, None}}
        \cup {[ok |-> FALSE, text |-> Timeout]}

\* dashboard(), lines 242-265: the AI call, and on success the Campaign row.
DashboardAI(s, ai, now) ==
    /\ req[s].pc = "dash_ai"
    /\ LET l == req[s]
           r == [l.out EXCEPT !.prompts = Append(@, l.prompt),
                              !.ai_errors = IF ai.ok THEN @ ELSE @ + 1]
           promotion_message == clean_ai_text(ai.text)
           camp == CampaignRow(l.b, r.request.form, promotion_message, now)
       IN  IF CompletionReturned(ai)
           THEN /\ campaigns' = Append(campaigns, camp)
                /\ Continue(s, [pc |-> "dash_list", b |-> l.b,
                        out |-> [r EXCEPT !.promotion_message = promotion_message,
                                          !.new_campaigns = {camp.id}]])
           ELSE /\ UNCHANGED campaigns
                /\ Continue(s, [pc |-> "dash_list", b |-> l.b,
                        out |-> [r EXCEPT !.promotion_message = AIErrorPrefix \o ai.text]])
    /\ UNCHANGED <<businesses, business_seq, customers, session, ai_text, clean_out>>

\* The LIMIT of the dashboard listing.
ListLimit == 5

\* Mutant of CampaignsOf: the query is not scoped by business.
CampaignsOf_all(id) == Range(campaigns)

\* Campaign.query.filter_by(business_id=id): the rows of one business.
CampaignsOf(id) == {c \in Range(campaigns) : c.business_id = id}

\* Mutant of NewestFirst: ascending order.
RECURSIVE NewestFirst_ascending(_, _)
NewestFirst_ascending(rows, n) ==
    IF n = 0 \/ rows = {} THEN {<<>>}
    ELSE LET first == {c \in rows : \A o \in rows : c.created_at <= o.created_at}
         IN  UNION {{<<c>> \o rest : rest \in NewestFirst_ascending(rows \ {c}, n - 1)} :
                    c \in first}

\* .order_by(Campaign.created_at.desc()).limit(n).all(): every result the store may give.
\* The next row is any row of the largest created_at left; rows of equal created_at come
\* in an order the store chooses.
RECURSIVE NewestFirst(_, _)
NewestFirst(rows, n) ==
    IF n = 0 \/ rows = {} THEN {<<>>}
    ELSE LET first == {c \in rows : \A o \in rows : c.created_at >= o.created_at}
         IN  UNION {{<<c>> \o rest : rest \in NewestFirst(rows \ {c}, n - 1)} : c \in first}

\* dashboard(), lines 282-287: the listing query.
DashboardList(s) ==
    /\ req[s].pc = "dash_list"
    /\ \E listing \in NewestFirst(CampaignsOf(req[s].b.id), ListLimit) :
          Continue(s, [pc |-> "dash_count", b |-> req[s].b,
                       out |-> [req[s].out EXCEPT !.listing = listing]])
    /\ UNCHANGED <<store, session, ai_text, clean_out>>

\* dashboard(), lines 289-297: the count query and the page.
DashboardCount(s) ==
    /\ req[s].pc = "dash_count"
    /\ Finish(s, Page([req[s].out EXCEPT
                          !.total_campaigns = Cardinality(CampaignsOf(req[s].b.id)),
                          !.business_name = req[s].b.business_name],
                      "dashboard.html"))
    /\ UNCHANGED <<store, session, ai_text, clean_out>>

(***************************************************************************)
(* clean_ai_text applied to an input                                       *)
(***************************************************************************)
Clean ==
    /\ clean_out = Unset
    /\ clean_out' = clean_ai_text(ai_text)
    /\ UNCHANGED <<store, session, req, resp, ai_text>>

(***************************************************************************)
(* The requests browsers send                                              *)
(***************************************************************************)
EmptyForm == <<>>

Get == [method |-> "GET", form |-> EmptyForm]

Post(form) == [method |-> "POST", form |-> form]

Emails == {"a@x", "b@x"}

\* Passwords of 6, 8 and 5 characters.
Passwords == {"secret", "hunter22", "abcde"}

\* Every email with every password under one business name, and two forms that
\* lack a field.
RegisterRequests ==
    {Get}
    \cup {Post([business_name |-> n, owner_name |-> "Owner", email |-> e, password |-> p]) :
            n \in {Cafe}, e \in Emails, p \in Passwords}
    \cup {Post([owner_name |-> "Owner", email |-> "a@x", password |-> "abcde"]),
          Post([business_name |-> Cafe, owner_name |-> "Owner", email |-> "a@x"])}

LoginRequests ==
    {Get}
    \cup {Post([email |-> e, password |-> p]) : e \in Emails \cup {"nobody@x"}, p \in Passwords}
    \cup {Post([email |-> "a@x"])}

Generate(campaign_type) ==
    Post([generate_campaign |-> "1", first_name |-> Ann, customer_email |-> "ann@c",
          campaign_type |-> campaign_type])

SendEmail ==
    Post([send_email |-> "1", customer_email |-> "ann@c", promotion_message |-> OkText])

DashboardRequests ==
    {Get, Post(EmptyForm), SendEmail, Post([send_email |-> "1", customer_email |-> "ann@c"])}
    \cup {Generate(t) : t \in {"birthday", "loyalty", "weekend", ""}}
    \cup {Post([generate_campaign |-> "1", first_name |-> Ann, last_name |-> Spa,
                customer_email |-> "ann@c", campaign_type |-> "birthday"]),
          Post([generate_campaign |-> "1", first_name |-> Ann, customer_email |-> "ann@c"]),
          Post([generate_campaign |-> "1", customer_email |-> "ann@c",
                campaign_type |-> "birthday"])}

(***************************************************************************)
(* Specifications                                                          *)
(***************************************************************************)
Init ==
    /\ businesses = <<>>
    /\ business_seq = 0
    /\ customers = <<>>
    /\ campaigns = <<>>
    /\ session = [s \in Sessions |-> NoUser]
    /\ req = [s \in Sessions |-> Idle]
    /\ resp = NoResponse
    /\ ai_text = <<>>
    /\ clean_out = Unset

\* Accounts: two browsers send every registration and login request, and log out.
Next ==
    \E s \in Sessions :
        \/ \E rq \in RegisterRequests : RegisterBegin(s, rq.method, rq.form)
        \/ \E salt \in Salts : RegisterCommit(s, salt)
        \/ \E rq \in LoginRequests : Login(s, rq.method, rq.form)
        \/ Logout(s)

Spec == Init /\ [][Next]_vars

\* The two accounts the dashboard specifications register and log in to.
CafeAccount == [business_name |-> Cafe, owner_name |-> "Owner", email |-> "a@x",
                password |-> "secret"]

SpaAccount == [business_name |-> Spa, owner_name |-> "Owner", email |-> "b@x",
               password |-> "hunter22"]

Accounts == {CafeAccount, SpaAccount}

Credentials(account) == [email |-> account.email, password |-> account.password]

MaxSubmissions == 1

\* Dashboard: one browser registers and logs in to two accounts, logs out, and sends
\* every dashboard request; the AI service gives every outcome; at most MaxSubmissions
\* generate-campaign submissions.
NextDashboard ==
    \/ \E a \in Accounts : RegisterBegin("s1", "POST", a)
    \/ RegisterCommit("s1", "saltA")
    \/ \E a \in Accounts : Login("s1", "POST", Credentials(a))
    \/ Logout("s1")
    \/ \E rq \in DashboardRequests :
          /\ Has(rq.form, "generate_campaign") => Len(customers) < MaxSubmissions
          /\ DashboardBegin("s1", rq.method, rq.form)
    \/ \E ai \in AIOutcomes : DashboardAI("s1", ai, 1)
    \/ DashboardList("s1")
    \/ DashboardCount("s1")

SpecDashboard == Init /\ [][NextDashboard]_vars

MaxCustomers == 2

\* Isolation: two browsers register and log in to two accounts, log out, look at the
\* dashboard and generate campaigns; at most MaxCustomers generate-campaign submissions.
NextIsolation ==
    \E s \in Sessions :
        \/ \E a \in Accounts : RegisterBegin(s, "POST", a)
        \/ RegisterCommit(s, "saltA")
        \/ \E a \in Accounts : Login(s, "POST", Credentials(a))
        \/ Logout(s)
        \/ \E rq \in {Get, Generate("birthday")} :
              /\ Has(rq.form, "generate_campaign") => Len(customers) < MaxCustomers
              /\ DashboardBegin(s, rq.method, rq.form)
        \/ DashboardAI(s, [ok |-> TRUE, text |-> OkText], 1)
        \/ DashboardList(s)
        \/ DashboardCount(s)

SpecIsolation == Init /\ [][NextIsolation]_vars

MaxListCustomers == 6

\* Listing: one browser registers two accounts, one after the other, looks at the
\* dashboard and generates campaigns; at most MaxListCustomers submissions.
NextList ==
    \/ \E a \in Accounts : RegisterBegin("s1", "POST", a)
    \/ RegisterCommit("s1", "saltA")
    \/ \E rq \in {Get, Generate("birthday")} :
          /\ Has(rq.form, "generate_campaign") => Len(customers) < MaxListCustomers
          /\ DashboardBegin("s1", rq.method, rq.form)
    \/ \E now \in Times : DashboardAI("s1", [ok |-> TRUE, text |-> OkText], now)
    \/ DashboardList("s1")
    \/ DashboardCount("s1")

SpecList == Init /\ [][NextList]_vars

\* clean_ai_text over every text of at most MaxTextLen characters.
InitClean ==
    /\ businesses = <<>>
    /\ business_seq = 0
    /\ customers = <<>>
    /\ campaigns = <<>>
    /\ session = [s \in Sessions |-> NoUser]
    /\ req = [s \in Sessions |-> Idle]
    /\ resp = NoResponse
    /\ ai_text \in CleanInputs
    /\ clean_out = Unset

SpecClean == InitClean /\ [][Clean]_vars

(***************************************************************************)
(* Claims                                                                  *)
(***************************************************************************)
\* The step just taken answered a request of this handler.
Answered(handler) == resp.request.handler = handler

\* A step answers a request of this handler.
Answers(handler) == resp'.request.handler = handler

\* A Business row holds this email.
EmailRegistered(email) == \E i \in 1..Len(businesses) : businesses[i].email = email

\* No leading and no trailing whitespace.
Stripped(text) ==
    text = <<>> \/ (text[1] \notin Whitespace /\ text[Len(text)] \notin Whitespace)

\* C7: for every input, clean_ai_text returns a text with no "###", no "**" and no
\* leading or trailing whitespace, and "**Hi** ###" gives "Hi".
C7_CleanedHasNoMarkers ==
    clean_out # Unset =>
        /\ ~Contains(clean_out, Hashes)
        /\ ~Contains(clean_out, Stars)
        /\ Stripped(clean_out)
        /\ ai_text = ExampleText => clean_out = <<"H", "i">>

\* C1: no two Business rows hold the same email, also when two registrations of one
\* email are interleaved; and a registration whose email is already in the store when
\* it is answered leaves the Business rows as they were.
C1_EmailStaysUnique ==
    /\ [](\A i, j \in 1..Len(businesses) :
            businesses[i].email = businesses[j].email => i = j)
    /\ [][(/\ Answers("register")
           /\ Has(resp'.request.form, "email")
           /\ EmailRegistered(resp'.request.form.email))
          => businesses' = businesses]_vars

\* C1 witness: two registrations of one email both passed the lookup; the first
\* committed, and the commit of the second was refused by the unique constraint.
C1_SecondCommitRefused ==
    /\ Answered("register")
    /\ resp.kind = "error"
    /\ resp.body = "500 Internal Server Error"
    /\ EmailRegistered(resp.request.form.email)
    /\ business_seq > Len(businesses)

\* The password a Business row was registered with (the hash is of that password).
RegisteredPassword(b) == b.password[2]

\* The Business rows that hold this email.
RowsOfEmail(email) == {b \in Range(businesses) : b.email = email}

\* The step just taken answered a POST /login, with both fields, of a session that
\* held no user_id.
LoginAttempted ==
    /\ Answered("login")
    /\ resp.request.method = "POST"
    /\ resp.uid = NoUser
    /\ Has(resp.request.form, "email")
    /\ Has(resp.request.form, "password")

\* C5: a login from a session with no user_id, with the email of a Business and the
\* password it registered with, sets the session's user_id to that Business's id; a
\* wrong password and an unknown email both get "Invalid Credentials" and leave the
\* session without a user_id.
C5_LoginSetsSessionOrRefuses ==
    LoginAttempted =>
        LET form == resp.request.form
            right == {b \in RowsOfEmail(form.email) : RegisteredPassword(b) = form.password}
        IN  IF right # {}
            THEN /\ \E b \in right : session[resp.session] = b.id
                 /\ resp.kind = "redirect"
                 /\ resp.body = "/dashboard"
            ELSE /\ session[resp.session] = NoUser
                 /\ resp.kind = "text"
                 /\ resp.body = "Invalid Credentials"

\* C5 witness: a login to the second Business with its own password, while another
\* Business is registered with another password.
C5_LoggedInToSecondBusiness ==
    /\ LoginAttempted
    /\ resp.kind = "redirect"
    /\ Len(businesses) = 2
    /\ session[resp.session] = businesses[2].id
    /\ RegisteredPassword(businesses[1]) # RegisteredPassword(businesses[2])

\* A step answers a POST /register whose password has fewer than 6 characters.
ShortPasswordAnswered ==
    /\ Answers("register")
    /\ resp'.request.method = "POST"
    /\ Has(resp'.request.form, "password")
    /\ Len(resp'.request.form.password) < 6

\* C6: a registration whose password has fewer than 6 characters is answered with a
\* validation error (the password message; 400 Bad Request when another field is
\* missing), and the Business rows and the session stay as they were, whatever the
\* other fields hold and whether or not the email is registered.
C6_ShortPasswordRejected ==
    [][ShortPasswordAnswered =>
        /\ businesses' = businesses
        /\ business_seq = business_seq'
        /\ session' = session
        /\ req[resp'.session].pc = "idle"
        /\ IF DOMAIN resp'.request.form = {"business_name", "owner_name", "email", "password"}
           THEN resp'.kind = "text" /\ resp'.body = "Password must be at least 6 characters."
           ELSE resp'.kind = "error" /\ resp'.body = "400 Bad Request"]_vars

\* C6 witness: a logged-in browser registers an email that is registered, with a
\* password of 5 characters, and gets the password message.
C6_ShortPasswordForRegisteredEmail ==
    /\ Answered("register")
    /\ resp.body = "Password must be at least 6 characters."
    /\ Len(resp.request.form.password) = 5
    /\ EmailRegistered(resp.request.form.email)
    /\ resp.uid # NoUser
    /\ session[resp.session] = resp.uid

\* No Business row has this id.
NoBusinessHasId(id) == \A i \in 1..Len(businesses) : businesses[i].id # id

SubmissionAnswered ==
    /\ Answered("dashboard")
    /\ resp.request.method = "POST"
    /\ Has(resp.request.form, "generate_campaign")

\* The rows a request added, as the store holds them.
AddedCustomers == {c \in Range(customers) : c.id \in resp.new_customers}

AddedCampaigns == {c \in Range(campaigns) : c.id \in resp.new_campaigns}

\* C3: when the AI call of a submission raises, no Campaign row is added (by that step
\* or any other of the request), the handler still answers with the dashboard page,
\* the message starts with "AI Error:", and the call was made once.
C3_AIErrorAddsNoCampaign ==
    /\ []((Answered("dashboard") /\ resp.ai_errors > 0)
          => /\ resp.kind = "page"
             /\ resp.body = "dashboard.html"
             /\ StartsWith(resp.promotion_message, AIErrorPrefix)
             /\ Len(resp.prompts) = 1
             /\ AddedCampaigns = {})
    /\ [][/\ \A s \in Sessions :
               (/\ req[s].pc = "dash_ai"
                /\ req'[s].pc # "dash_ai"
                /\ req'[s].out.ai_errors > req[s].out.ai_errors)
               => /\ campaigns' = campaigns
                  /\ req'[s].pc = "dash_list"
          /\ campaigns' # campaigns
             => \E s \in Sessions : /\ req[s].pc = "dash_ai"
                                    /\ req'[s].pc = "dash_list"
                                    /\ req'[s].out.ai_errors = req[s].out.ai_errors]_vars

\* C3 witness: a submission whose AI call raised is answered with the page and the
\* "AI Error: timeout" message.
C3_AIErrorShown ==
    /\ SubmissionAnswered
    /\ resp.ai_errors = 1
    /\ resp.kind = "page"
    /\ resp.promotion_message = AIErrorPrefix \o Timeout

SubmissionOfBusinessAnswered ==
    /\ SubmissionAnswered
    /\ resp.b # NoUser
    /\ Has(resp.request.form, "first_name")
    /\ Has(resp.request.form, "customer_email")

\* The prompt p is the one the claim gives for campaign_type t, and names the business.
PromptMatches(p, t) ==
    /\ t = "birthday" => Contains(p, ThirtyPercent)
    /\ t = "loyalty" => Contains(p, LoyaltyWord)
    /\ t \notin {"birthday", "loyalty"} => Contains(p, TwentyPercent)
    /\ Contains(p, BusinessById(resp.b).business_name)

OwnCampaigns == {c \in Range(campaigns) : c.business_id = resp.uid}

\* C4: every row of a dashboard listing, every row counted in its total and every row
\* the request added has the business_id the request's session held.
C4_OnlyOwnCampaigns ==
    (Answered("dashboard") /\ resp.kind = "page") =>
        /\ resp.uid # NoUser
        /\ \A i \in 1..Len(resp.listing) : resp.listing[i].business_id = resp.uid
        /\ resp.total_campaigns = Cardinality(OwnCampaigns)
        /\ \A c \in AddedCampaigns : c.business_id = resp.uid
        /\ \A c \in AddedCustomers : c.business_id = resp.uid

\* C4 witness: a business gets its listing while the store holds a Campaign row of
\* another business.
C4_ListingBesideForeignCampaign ==
    /\ Answered("dashboard")
    /\ resp.kind = "page"
    /\ resp.listing # <<>>
    /\ \E c \in Range(campaigns) : c.business_id # resp.uid
    /\ resp.total_campaigns < Len(campaigns)

\* C9: the listing holds min(5, n) distinct rows of the business's n Campaign rows, in
\* descending created_at order, none older than a row left out (the row the request
\* added is among the candidates), and the total is n.
C9_NewestFiveAndFullCount ==
    (Answered("dashboard") /\ resp.kind = "page") =>
        LET listing == resp.listing
            shown == Range(listing)
        IN  /\ Len(listing) <= 5
            /\ Len(listing) = IF Cardinality(OwnCampaigns) < 5
                              THEN Cardinality(OwnCampaigns) ELSE 5
            /\ shown \subseteq OwnCampaigns
            /\ Cardinality(shown) = Len(listing)
            /\ \A i, j \in 1..Len(listing) :
                  i < j => listing[i].created_at >= listing[j].created_at
            /\ \A c \in OwnCampaigns \ shown, d \in shown : c.created_at <= d.created_at
            /\ resp.total_campaigns = Cardinality(OwnCampaigns)

\* C9 witness: the sixth submission of a business: 5 rows listed, the newest first and
\* among them the row just added, an older row left out, and a total of 6.
C9_SixthCampaignListed ==
    /\ SubmissionAnswered
    /\ resp.kind = "page"
    /\ resp.total_campaigns = 6
    /\ Len(resp.listing) = 5
    /\ AddedCampaigns \subseteq Range(resp.listing)
    /\ AddedCampaigns # {}
    /\ resp.listing[1].created_at > resp.listing[5].created_at

====
